---- MODULE Spec2Model ----
(***************************************************************************)
(* Model of the Polygon arbitrage bot: the per-DEX price validator         *)
(* (src/src/price_validator.rs) and the polling round that validates two   *)
(* quotes and detects an arbitrage opportunity (src/src/main.rs).          *)
(*                                                                         *)
(* Prices are whole USDC amounts.  rust_decimal values that the code       *)
(* obtains by division are kept as exact fractions [n, d], where           *)
(* rust_decimal rounds a quotient at 28 fractional digits.  For the price  *)
(* sets used here the comparisons with max_price_change_pct and with       *)
(* min_profit_threshold come out the same either way; the sign of          *)
(* estimated_profit can differ only where the exact profit is zero.        *)
(*                                                                         *)
(* SpecValidator explores the validator under any sequence of calls; Spec  *)
(* explores the polling loop at one instant of the clock (timestamps take  *)
(* no part in any result).                                                 *)
(***************************************************************************)
EXTENDS Integers, Sequences, FiniteSets, TLC

VARIABLES
    last_prices,   \* PriceValidator.last_prices: dex name -> PriceSnapshot or NoSnapshot
    now,           \* Utc::now(), in minutes
    panicked,      \* the thread unwound from a panic (Decimal division by zero)
    call,          \* the validator call made last (observation of the call and its return value)
    config,        \* Config: the trading parameters, fixed at start-up
    round,         \* what the last check_arbitrage_opportunity did
    db             \* number of rows of arbitrage_opportunities

vars == <<last_prices, now, panicked, call, config, round, db>>

----------------------------------------------------------------------------
(* Bounds of the model *)

\* consecutive_errors is a u32; calls that would count beyond MaxErrors are not explored
MaxErrors == 7
\* the clock stops advancing at MaxNow
MaxNow == 6
\* minutes that pass in one Tick
TickMinutes == 6
\* rows the table holds at most
MaxRows == 2

\* the DEX names the bot validates
Dexes == {"Uniswap", "SushiSwap"}

\* quotes a DEX may return: below the band, the band's ends, inside it, above it
Prices == {450, 500, 2000, 2300, 10000, 10500}

\* quotes the two DEX clients return in the polling loop
Quotes == {450, 2000, 2300}

----------------------------------------------------------------------------
(* rust_decimal values as exact fractions *)

RECURSIVE GCD(_, _)
GCD(a, b) == IF b = 0 THEN a ELSE GCD(b, a % b)

Abs(x) == IF x < 0 THEN -x ELSE x

\* the fraction n/d in lowest terms with a positive denominator (d # 0)
Dec(n, d) ==
    LET g == GCD(Abs(n), Abs(d))
        s == IF d < 0 THEN -1 ELSE 1
    IN  [n |-> s * (n \div g), d |-> s * (d \div g)]

DecInt(i) == [n |-> i, d |-> 1]
DecZero == DecInt(0)
DecSub(a, b) == Dec(a.n * b.d - b.n * a.d, a.d * b.d)
DecMul(a, b) ==
    LET x == Dec(a.n, b.d)
        y == Dec(b.n, a.d)
    IN  Dec(x.n * y.n, x.d * y.d)
\* b is not zero: the callers model a zero divisor as a panic
DecDiv(a, b) == DecMul(a, Dec(b.d, b.n))
DecAbs(a) == [n |-> Abs(a.n), d |-> a.d]
DecGT(a, b) == a.n * b.d > b.n * a.d
DecGE(a, b) == a.n * b.d >= b.n * a.d
DecLT(a, b) == DecGT(b, a)

----------------------------------------------------------------------------
(* PriceValidator *)

min_price == 500
max_price == 10000
max_price_change_pct == Dec(15, 100)
max_price_age == 5
breaker_threshold == 5

NoSnapshot == [none |-> TRUE]

HasSnapshot(lp, dex_name) == lp[dex_name] # NoSnapshot

PriceSnapshot(price, timestamp, consecutive_errors) ==
    [price |-> price, timestamp |-> timestamp, consecutive_errors |-> consecutive_errors]

\* mutant: the upper end of the band is not checked
check_absolute_bounds_no_upper(price) == price >= min_price

\* mutant: the ends of the band are excluded
check_absolute_bounds_exclusive(price) == price > min_price /\ price < max_price

check_absolute_bounds(price) == price >= min_price /\ price <= max_price

\* mutant: a change of exactly max_price_change_pct is rejected too
check_price_change_inclusive(lp, dex_name, price) ==
    IF HasSnapshot(lp, dex_name)
    THEN IF lp[dex_name].price = 0
         THEN "panic"
         ELSE LET price_change == DecDiv(DecAbs(DecInt(price - lp[dex_name].price)),
                                         DecInt(lp[dex_name].price))
              IN  IF DecGE(price_change, max_price_change_pct) THEN "error" ELSE "none"
    ELSE "none"

\* "none": no objection; "error": Some(message); "panic": Decimal division by zero
check_price_change(lp, dex_name, price) ==
    IF HasSnapshot(lp, dex_name)
    THEN IF lp[dex_name].price = 0
         THEN "panic"
         ELSE LET price_change == DecDiv(DecAbs(DecInt(price - lp[dex_name].price)),
                                         DecInt(lp[dex_name].price))
              IN  IF DecGT(price_change, max_price_change_pct) THEN "error" ELSE "none"
    ELSE "none"

\* mutant: the accepted price is written to every DEX's entry
record_valid_price_shared(lp, dex_name, price, timestamp) ==
    [d \in DOMAIN lp |-> PriceSnapshot(price, timestamp, 0)]

record_valid_price(lp, dex_name, price, timestamp) ==
    [lp EXCEPT ![dex_name] = PriceSnapshot(price, timestamp, 0)]

\* mutant: the error counter wraps around at 7
record_error_wrapping(lp, dex_name, t) ==
    IF HasSnapshot(lp, dex_name)
    THEN [lp EXCEPT ![dex_name].consecutive_errors = (@ + 1) % 7]
    ELSE [lp EXCEPT ![dex_name] = PriceSnapshot(0, t, 1)]

\* mutant: an error for a DEX without a snapshot is not recorded
record_error_no_insert(lp, dex_name, t) ==
    IF HasSnapshot(lp, dex_name)
    THEN [lp EXCEPT ![dex_name].consecutive_errors = @ + 1]
    ELSE lp

record_error(lp, dex_name, t) ==
    IF HasSnapshot(lp, dex_name)
    THEN [lp EXCEPT ![dex_name].consecutive_errors = @ + 1]
    ELSE [lp EXCEPT ![dex_name] = PriceSnapshot(0, t, 1)]

\* the staleness warning of check 3: a log line, no effect on the result
stale_warning(lp, dex_name, t) ==
    HasSnapshot(lp, dex_name) /\ t - lp[dex_name].timestamp > max_price_age

\* get_last_price: the snapshot's (price, timestamp), NoSnapshot for None
get_last_price(lp, dex_name) ==
    IF HasSnapshot(lp, dex_name)
    THEN [price |-> lp[dex_name].price, timestamp |-> lp[dex_name].timestamp]
    ELSE NoSnapshot

\* mutant: the breaker trips at the fifth consecutive error
is_circuit_breaker_tripped_at_five(lp, dex_name) ==
    IF HasSnapshot(lp, dex_name)
    THEN lp[dex_name].consecutive_errors >= breaker_threshold
    ELSE FALSE

is_circuit_breaker_tripped(lp, dex_name) ==
    IF HasSnapshot(lp, dex_name)
    THEN lp[dex_name].consecutive_errors > breaker_threshold
    ELSE FALSE

\* mutant: the circuit breaker is consulted before the two price checks
validate_price_breaker_first(lp, dex_name, price, t) ==
    IF is_circuit_breaker_tripped(lp, dex_name)
    THEN [last_prices |-> lp, result |-> "CircuitBreakerTripped"]
    ELSE IF ~check_absolute_bounds(price)
    THEN [last_prices |-> record_error(lp, dex_name, t), result |-> "Invalid"]
    ELSE LET change == check_price_change(lp, dex_name, price)
         IN  IF change = "panic"
             THEN [last_prices |-> lp, result |-> "Panic"]
             ELSE IF change = "error"
             THEN [last_prices |-> record_error(lp, dex_name, t), result |-> "Invalid"]
             ELSE [last_prices |-> record_valid_price(lp, dex_name, price, t),
                   result |-> "Valid"]

\* mutant: a CircuitBreakerTripped answer counts as one more error
validate_price_counting_tripped(lp, dex_name, price, t) ==
    IF ~check_absolute_bounds(price)
    THEN [last_prices |-> record_error(lp, dex_name, t), result |-> "Invalid"]
    ELSE LET change == check_price_change(lp, dex_name, price)
         IN  IF change = "panic"
             THEN [last_prices |-> lp, result |-> "Panic"]
             ELSE IF change = "error"
             THEN [last_prices |-> record_error(lp, dex_name, t), result |-> "Invalid"]
             ELSE IF is_circuit_breaker_tripped(lp, dex_name)
             THEN [last_prices |-> record_error(lp, dex_name, t),
                   result |-> "CircuitBreakerTripped"]
             ELSE [last_prices |-> record_valid_price(lp, dex_name, price, t),
                   result |-> "Valid"]

\* mutant: a stale snapshot makes check 3 reject the price
validate_price_rejecting_stale(lp, dex_name, price, t) ==
    IF ~check_absolute_bounds(price)
    THEN [last_prices |-> record_error(lp, dex_name, t), result |-> "Invalid"]
    ELSE LET change == check_price_change(lp, dex_name, price)
         IN  IF change = "panic"
             THEN [last_prices |-> lp, result |-> "Panic"]
             ELSE IF change = "error" \/ stale_warning(lp, dex_name, t)
             THEN [last_prices |-> record_error(lp, dex_name, t), result |-> "Invalid"]
             ELSE IF is_circuit_breaker_tripped(lp, dex_name)
             THEN [last_prices |-> lp, result |-> "CircuitBreakerTripped"]
             ELSE [last_prices |-> record_valid_price(lp, dex_name, price, t),
                   result |-> "Valid"]

\* validate_price: the map afterwards and the value returned ("Panic": no return)
validate_price(lp, dex_name, price, t) ==
    IF ~check_absolute_bounds(price)
    THEN [last_prices |-> record_error(lp, dex_name, t), result |-> "Invalid"]
    ELSE LET change == check_price_change(lp, dex_name, price)
         IN  IF change = "panic"
             THEN [last_prices |-> lp, result |-> "Panic"]
             ELSE IF change = "error"
             THEN [last_prices |-> record_error(lp, dex_name, t), result |-> "Invalid"]
             ELSE IF is_circuit_breaker_tripped(lp, dex_name)
             THEN [last_prices |-> lp, result |-> "CircuitBreakerTripped"]
             ELSE [last_prices |-> record_valid_price(lp, dex_name, price, t),
                   result |-> "Valid"]

\* mutant: every DEX below the breaker threshold is counted as active
RECURSIVE count_stats_active_untripped(_, _, _, _)
count_stats_active_untripped(lp, keys, t, stats) ==
    IF keys = {}
    THEN stats
    ELSE LET dex_name == CHOOSE k \in keys : TRUE
             snapshot == lp[dex_name]
         IN  count_stats_active_untripped(lp, keys \ {dex_name}, t,
               [stats EXCEPT
                  !.active_dexes =
                     IF snapshot.consecutive_errors <= 5 THEN @ + 1 ELSE @,
                  !.circuit_breaker_tripped =
                     IF snapshot.consecutive_errors > 5 THEN @ + 1 ELSE @,
                  !.stale_prices =
                     IF t - snapshot.timestamp > max_price_age THEN @ + 1 ELSE @])

\* the loop of get_stats over the snapshots that remain in keys
RECURSIVE count_stats(_, _, _, _)
count_stats(lp, keys, t, stats) ==
    IF keys = {}
    THEN stats
    ELSE LET dex_name == CHOOSE k \in keys : TRUE
             snapshot == lp[dex_name]
         IN  count_stats(lp, keys \ {dex_name}, t,
               [stats EXCEPT
                  !.active_dexes =
                     IF snapshot.consecutive_errors = 0 THEN @ + 1 ELSE @,
                  !.circuit_breaker_tripped =
                     IF snapshot.consecutive_errors > 5 THEN @ + 1 ELSE @,
                  !.stale_prices =
                     IF t - snapshot.timestamp > max_price_age THEN @ + 1 ELSE @])

get_stats(lp, t) ==
    LET keys == {d \in DOMAIN lp : HasSnapshot(lp, d)}
    IN  count_stats(lp, keys, t,
          [total_dexes |-> Cardinality(keys), active_dexes |-> 0,
           circuit_breaker_tripped |-> 0, stale_prices |-> 0])

\* mutant: resetting a DEX that was never seen creates its snapshot
reset_error_count_inserting(lp, dex_name) ==
    IF HasSnapshot(lp, dex_name)
    THEN [lp EXCEPT ![dex_name].consecutive_errors = 0]
    ELSE [lp EXCEPT ![dex_name] = PriceSnapshot(0, 0, 0)]

reset_error_count(lp, dex_name) ==
    IF HasSnapshot(lp, dex_name)
    THEN [lp EXCEPT ![dex_name].consecutive_errors = 0]
    ELSE lp

is_valid(result) == result = "Valid"

\* a validate_price call stays within the explored range of the error counter
WithinErrors(lp, dex_name) ==
    HasSnapshot(lp, dex_name) => lp[dex_name].consecutive_errors < MaxErrors

----------------------------------------------------------------------------
(* Config *)

DefaultConfig ==
    [min_profit_threshold |-> Dec(5, 1000), trade_amount |-> 1000,
     estimated_gas_cost |-> 5, max_slippage_bps |-> 100]

\* the trading parameters the bot may be started with (Config::from_env)
Configs ==
    { [min_profit_threshold |-> Dec(0, 1), trade_amount |-> 1000,
       estimated_gas_cost |-> 0, max_slippage_bps |-> 0],
      [min_profit_threshold |-> Dec(1, 5), trade_amount |-> 1000,
       estimated_gas_cost |-> 0, max_slippage_bps |-> 0],
      [min_profit_threshold |-> Dec(1, 5), trade_amount |-> 2000,
       estimated_gas_cost |-> 5, max_slippage_bps |-> 100],
      DefaultConfig }

\* the observation of a validator call: the call, the value it returned, and
\* whether the DEX had a snapshot, was tripped and had a stale snapshot when the
\* call was made
CallRecord(op, dex_name, price, result, lp) ==
    [op |-> op, dex_name |-> dex_name, price |-> price, result |-> result,
     had_snapshot |-> HasSnapshot(lp, dex_name),
     was_tripped |-> is_circuit_breaker_tripped(lp, dex_name),
     was_stale |-> stale_warning(lp, dex_name, now)]

NoCall ==
    [op |-> "none", dex_name |-> "", price |-> 0, result |-> "",
     had_snapshot |-> FALSE, was_tripped |-> FALSE, was_stale |-> FALSE]
NoRound == [ran |-> FALSE]

----------------------------------------------------------------------------
(* ArbitrageBot *)

NoOpportunity == [none |-> TRUE]

\* what tokio::time::timeout(.., get_price(pair)) may yield
FetchResults ==
    { [kind |-> "Ok", price |-> p] : p \in Quotes }
      \cup { [kind |-> "Err", price |-> 0], [kind |-> "Timeout", price |-> 0] }

estimate_gas_cost(cfg) == DecInt(cfg.estimated_gas_cost)

\* the relative difference of the two prices, over the lower one
price_difference(uniswap_price, sushiswap_price) ==
    IF uniswap_price > sushiswap_price
    THEN DecDiv(DecInt(uniswap_price - sushiswap_price), DecInt(sushiswap_price))
    ELSE DecDiv(DecInt(sushiswap_price - uniswap_price), DecInt(uniswap_price))

slippage_factor(cfg) ==
    DecSub(DecInt(1), DecDiv(DecInt(cfg.max_slippage_bps), DecInt(10000)))

\* mutant: the buy leg loses nothing to slippage
tokens_bought_no_slippage(cfg, buy_price) ==
    DecDiv(DecInt(cfg.trade_amount), DecInt(buy_price))

\* tokens received when buying for trade_amount at buy_price
tokens_bought(cfg, buy_price) ==
    DecMul(DecDiv(DecInt(cfg.trade_amount), DecInt(buy_price)), slippage_factor(cfg))

\* USDC received when selling the tokens bought at sell_price
usdc_received(cfg, buy_price, sell_price) ==
    DecMul(DecMul(tokens_bought(cfg, buy_price), DecInt(sell_price)), slippage_factor(cfg))

\* mutant: the lower price is put on the sell side
buy_and_sell_sides_reversed(uniswap_price, sushiswap_price) ==
    IF uniswap_price > sushiswap_price
    THEN <<"Uniswap", "SushiSwap", uniswap_price, sushiswap_price>>
    ELSE <<"SushiSwap", "Uniswap", sushiswap_price, uniswap_price>>

\* (buy_dex, sell_dex, buy_price, sell_price)
buy_and_sell_sides(uniswap_price, sushiswap_price) ==
    IF uniswap_price > sushiswap_price
    THEN <<"SushiSwap", "Uniswap", sushiswap_price, uniswap_price>>
    ELSE <<"Uniswap", "SushiSwap", uniswap_price, sushiswap_price>>

calculate_arbitrage_profit(cfg, uniswap_price, sushiswap_price, price_diff_pct) ==
    LET trade_amount == DecInt(cfg.trade_amount)
        sides == buy_and_sell_sides(uniswap_price, sushiswap_price)
        buy_price == sides[3]
        sell_price == sides[4]
        estimated_gas_cost == estimate_gas_cost(cfg)
        gross_profit == DecSub(usdc_received(cfg, buy_price, sell_price), trade_amount)
        net_profit == DecSub(gross_profit, estimated_gas_cost)
    IN  [buy_dex |-> sides[1], sell_dex |-> sides[2],
         buy_price |-> buy_price, sell_price |-> sell_price,
         price_difference_pct |-> price_diff_pct,
         trade_amount |-> cfg.trade_amount,
         estimated_profit |-> net_profit,
         gas_cost |-> cfg.estimated_gas_cost]

\* Database::save_opportunity: the INSERT, which may fail
save_opportunity(rows, opportunity, save_ok) ==
    IF save_ok THEN rows + 1 ELSE rows

\* what a round did: where the fetch stage ended ("Ok", or the DEX whose failure
\* made it return), the two prices when both arrived, the two validation results
\* ("" when validate_price was not called), the opportunity, whether it was
\* inserted, and the value returned ("Panic": the call never returned)
RoundRecord(fetch, ur, sr, uv, sv, opp, saved, result) ==
    [ran |-> TRUE, fetch |-> fetch,
     uniswap_price |-> IF fetch = "Ok" THEN ur.price ELSE 0,
     sushiswap_price |-> IF fetch = "Ok" THEN sr.price ELSE 0,
     uniswap_validation |-> uv, sushiswap_validation |-> sv,
     opportunity |-> opp, saved |-> saved, result |-> result]

\* mutant: the min_profit_threshold gate is missing
detect_and_save_ungated(lp, cfg, rows, ur, sr, save_ok) ==
    LET price_diff == price_difference(ur.price, sr.price)
        opportunity == calculate_arbitrage_profit(cfg, ur.price, sr.price, price_diff)
    IN  IF DecGT(opportunity.estimated_profit, DecZero)
        THEN [last_prices |-> lp,
              db |-> save_opportunity(rows, opportunity, save_ok),
              round |-> RoundRecord("Ok", ur, sr, "Valid", "Valid", opportunity, save_ok,
                                    IF save_ok THEN "Ok" ELSE "Err")]
        ELSE [last_prices |-> lp, db |-> rows,
              round |-> RoundRecord("Ok", ur, sr, "Valid", "Valid", opportunity, FALSE, "Ok")]

\* mutant: an opportunity whose profit is zero is saved too
detect_and_save_nonnegative(lp, cfg, rows, ur, sr, save_ok) ==
    LET price_diff == price_difference(ur.price, sr.price)
    IN  IF DecGE(price_diff, cfg.min_profit_threshold)
        THEN LET opportunity == calculate_arbitrage_profit(cfg, ur.price, sr.price, price_diff)
             IN  IF DecGE(opportunity.estimated_profit, DecZero)
                 THEN [last_prices |-> lp,
                       db |-> save_opportunity(rows, opportunity, save_ok),
                       round |-> RoundRecord("Ok", ur, sr, "Valid", "Valid", opportunity, save_ok,
                                             IF save_ok THEN "Ok" ELSE "Err")]
                 ELSE [last_prices |-> lp, db |-> rows,
                       round |-> RoundRecord("Ok", ur, sr, "Valid", "Valid", opportunity, FALSE, "Ok")]
        ELSE [last_prices |-> lp, db |-> rows,
              round |-> RoundRecord("Ok", ur, sr, "Valid", "Valid", NoOpportunity, FALSE, "Ok")]

\* the part of check_arbitrage_opportunity after both prices were found valid
detect_and_save(lp, cfg, rows, ur, sr, save_ok) ==
    LET price_diff == price_difference(ur.price, sr.price)
    IN  IF DecGE(price_diff, cfg.min_profit_threshold)
        THEN LET opportunity == calculate_arbitrage_profit(cfg, ur.price, sr.price, price_diff)
             IN  IF DecGT(opportunity.estimated_profit, DecZero)
                 THEN [last_prices |-> lp,
                       db |-> save_opportunity(rows, opportunity, save_ok),
                       round |-> RoundRecord("Ok", ur, sr, "Valid", "Valid", opportunity, save_ok,
                                             IF save_ok THEN "Ok" ELSE "Err")]
                 ELSE [last_prices |-> lp, db |-> rows,
                       round |-> RoundRecord("Ok", ur, sr, "Valid", "Valid", opportunity, FALSE, "Ok")]
        ELSE [last_prices |-> lp, db |-> rows,
              round |-> RoundRecord("Ok", ur, sr, "Valid", "Valid", NoOpportunity, FALSE, "Ok")]

\* mutant: the SushiSwap validation result is not looked at
check_arbitrage_opportunity_sushi_unchecked(lp, cfg, rows, ur, sr, save_ok, t) ==
    IF ur.kind # "Ok"
    THEN [last_prices |-> lp, db |-> rows,
          round |-> RoundRecord("UniswapFailed", ur, sr, "", "", NoOpportunity, FALSE, "Ok")]
    ELSE IF sr.kind # "Ok"
    THEN [last_prices |-> lp, db |-> rows,
          round |-> RoundRecord("SushiSwapFailed", ur, sr, "", "", NoOpportunity, FALSE, "Ok")]
    ELSE LET uv == validate_price(lp, "Uniswap", ur.price, t)
         IN  IF uv.result = "Panic"
             THEN [last_prices |-> uv.last_prices, db |-> rows,
                   round |-> RoundRecord("Ok", ur, sr, "Panic", "", NoOpportunity, FALSE, "Panic")]
             ELSE LET sv == validate_price(uv.last_prices, "SushiSwap", sr.price, t)
                  IN  IF sv.result = "Panic"
                      THEN [last_prices |-> sv.last_prices, db |-> rows,
                            round |-> RoundRecord("Ok", ur, sr, uv.result, "Panic",
                                                  NoOpportunity, FALSE, "Panic")]
                      ELSE IF ~is_valid(uv.result)
                      THEN [last_prices |-> sv.last_prices, db |-> rows,
                            round |-> RoundRecord("Ok", ur, sr, uv.result, sv.result,
                                                  NoOpportunity, FALSE, "Ok")]
                      ELSE detect_and_save(sv.last_prices, cfg, rows, ur, sr, save_ok)

\* mutant: a failed fetch is counted as a validation error of that DEX
check_arbitrage_opportunity_counting_fetch(lp, cfg, rows, ur, sr, save_ok, t) ==
    IF ur.kind # "Ok"
    THEN [last_prices |-> record_error(lp, "Uniswap", t), db |-> rows,
          round |-> RoundRecord("UniswapFailed", ur, sr, "", "", NoOpportunity, FALSE, "Ok")]
    ELSE IF sr.kind # "Ok"
    THEN [last_prices |-> record_error(lp, "SushiSwap", t), db |-> rows,
          round |-> RoundRecord("SushiSwapFailed", ur, sr, "", "", NoOpportunity, FALSE, "Ok")]
    ELSE LET uv == validate_price(lp, "Uniswap", ur.price, t)
         IN  IF uv.result = "Panic"
             THEN [last_prices |-> uv.last_prices, db |-> rows,
                   round |-> RoundRecord("Ok", ur, sr, "Panic", "", NoOpportunity, FALSE, "Panic")]
             ELSE LET sv == validate_price(uv.last_prices, "SushiSwap", sr.price, t)
                  IN  IF sv.result = "Panic"
                      THEN [last_prices |-> sv.last_prices, db |-> rows,
                            round |-> RoundRecord("Ok", ur, sr, uv.result, "Panic",
                                                  NoOpportunity, FALSE, "Panic")]
                      ELSE IF ~is_valid(uv.result) \/ ~is_valid(sv.result)
                      THEN [last_prices |-> sv.last_prices, db |-> rows,
                            round |-> RoundRecord("Ok", ur, sr, uv.result, sv.result,
                                                  NoOpportunity, FALSE, "Ok")]
                      ELSE detect_and_save(sv.last_prices, cfg, rows, ur, sr, save_ok)

\* check_arbitrage_opportunity: the validator's map and the table afterwards, and
\* what the round did (result "Panic": the call never returned)
check_arbitrage_opportunity(lp, cfg, rows, ur, sr, save_ok, t) ==
    IF ur.kind # "Ok"
    THEN [last_prices |-> lp, db |-> rows,
          round |-> RoundRecord("UniswapFailed", ur, sr, "", "", NoOpportunity, FALSE, "Ok")]
    ELSE IF sr.kind # "Ok"
    THEN [last_prices |-> lp, db |-> rows,
          round |-> RoundRecord("SushiSwapFailed", ur, sr, "", "", NoOpportunity, FALSE, "Ok")]
    ELSE LET uv == validate_price(lp, "Uniswap", ur.price, t)
         IN  IF uv.result = "Panic"
             THEN [last_prices |-> uv.last_prices, db |-> rows,
                   round |-> RoundRecord("Ok", ur, sr, "Panic", "", NoOpportunity, FALSE, "Panic")]
             ELSE LET sv == validate_price(uv.last_prices, "SushiSwap", sr.price, t)
                  IN  IF sv.result = "Panic"
                      THEN [last_prices |-> sv.last_prices, db |-> rows,
                            round |-> RoundRecord("Ok", ur, sr, uv.result, "Panic",
                                                  NoOpportunity, FALSE, "Panic")]
                      ELSE IF ~is_valid(uv.result) \/ ~is_valid(sv.result)
                      THEN [last_prices |-> sv.last_prices, db |-> rows,
                            round |-> RoundRecord("Ok", ur, sr, uv.result, sv.result,
                                                  NoOpportunity, FALSE, "Ok")]
                      ELSE detect_and_save(sv.last_prices, cfg, rows, ur, sr, save_ok)

----------------------------------------------------------------------------
(* The validator under any sequence of calls *)

InitValidator ==
    /\ last_prices = [d \in Dexes |-> NoSnapshot]
    /\ now = 0
    /\ panicked = FALSE
    /\ call = NoCall
    /\ config = DefaultConfig
    /\ round = NoRound
    /\ db = 0

CallValidatePrice(dex_name, price) ==
    /\ ~panicked
    /\ WithinErrors(last_prices, dex_name)
    /\ LET r == validate_price(last_prices, dex_name, price, now)
       IN  /\ last_prices' = r.last_prices
           /\ panicked' = (r.result = "Panic")
           /\ call' = CallRecord("validate_price", dex_name, price, r.result, last_prices)
    /\ UNCHANGED <<now, config, round, db>>

CallResetErrorCount(dex_name) ==
    /\ ~panicked
    /\ last_prices' = reset_error_count(last_prices, dex_name)
    /\ call' = CallRecord("reset_error_count", dex_name, 0, "", last_prices)
    /\ UNCHANGED <<now, panicked, config, round, db>>

\* get_stats takes &self: it reads the map and changes nothing
CallGetStats ==
    /\ ~panicked
    /\ call' = [NoCall EXCEPT !.op = "get_stats"]
    /\ UNCHANGED <<last_prices, now, panicked, config, round, db>>

Tick ==
    /\ ~panicked
    /\ now < MaxNow
    /\ now' = now + TickMinutes
    /\ UNCHANGED <<last_prices, panicked, call, config, round, db>>

NextValidator ==
    \/ \E dex_name \in Dexes, price \in Prices : CallValidatePrice(dex_name, price)
    \/ \E dex_name \in Dexes : CallResetErrorCount(dex_name)
    \/ CallGetStats
    \/ Tick

SpecValidator == InitValidator /\ [][NextValidator]_vars

----------------------------------------------------------------------------
(* Properties of the validator, checked under SpecValidator *)

Errors(lp, d) == IF HasSnapshot(lp, d) THEN lp[d].consecutive_errors ELSE 0

\* the price a DEX has on record; the zero sentinel when none was ever accepted
StoredPrice(lp, d) == IF HasSnapshot(lp, d) THEN lp[d].price ELSE 0

InBand(p) == p >= 500 /\ p <= 10000

\* |p1 - p0| / p0 > 0.15, for p0 > 0
LargeChange(p0, p1) == 100 * Abs(p1 - p0) > 15 * p0

Outcomes == {"Valid", "Invalid", "CircuitBreakerTripped"}

\* C1: validate_price never raises a numeric fault: every call, also one made
\* for a DEX whose snapshot holds the zero-sentinel price, returns an outcome.
C1_NoNumericFault ==
    /\ ~panicked
    /\ call.op = "validate_price" => call.result \in Outcomes

\* C2: six rejections in a row trip the breaker; reset_error_count untrips it,
\* and the validate_price call that follows the reset of a tripped DEX with a
\* price that is in the band (and not a large change from a recorded price)
\* returns Valid and records the price.
C2_TripResetAccept ==
    [][\A d \in Dexes :
         /\ Errors(last_prices', d) >= 6 => is_circuit_breaker_tripped(last_prices', d)
         /\ CallResetErrorCount(d) => ~is_circuit_breaker_tripped(last_prices', d)
         /\ \A p \in Prices :
              ( /\ call.op = "reset_error_count" /\ call.dex_name = d /\ call.was_tripped
                /\ CallValidatePrice(d, p)
                /\ InBand(p)
                /\ (StoredPrice(last_prices, d) # 0 => ~LargeChange(StoredPrice(last_prices, d), p)) )
              => (call'.result = "Valid" /\ StoredPrice(last_prices', d) = p)
      ]_vars

\* C3 as claimed: for a tripped DEX every validate_price call returns
\* CircuitBreakerTripped, whatever the price.
C3_TrippedAlwaysReportsTripped ==
    [][\A d \in Dexes, p \in Prices :
         (is_circuit_breaker_tripped(last_prices, d) /\ CallValidatePrice(d, p))
         => call'.result = "CircuitBreakerTripped"
      ]_vars

\* C3 as amended: for a tripped DEX no validate_price call returns Valid; a
\* price outside the band, or a large change from the recorded non-zero price,
\* returns Invalid; CircuitBreakerTripped is returned exactly for the prices
\* that pass both checks.
C3_TrippedNeverValid ==
    [][\A d \in Dexes, p \in Prices :
         (is_circuit_breaker_tripped(last_prices, d) /\ CallValidatePrice(d, p))
         => LET p0 == StoredPrice(last_prices, d)
            IN  /\ call'.result # "Valid"
                /\ ~InBand(p) => call'.result = "Invalid"
                /\ (InBand(p) /\ p0 # 0 /\ LargeChange(p0, p)) => call'.result = "Invalid"
                /\ (InBand(p) /\ p0 # 0 /\ ~LargeChange(p0, p))
                     => call'.result = "CircuitBreakerTripped"
                /\ call'.result = "CircuitBreakerTripped"
                     => (InBand(p) /\ p0 # 0 /\ ~LargeChange(p0, p))
      ]_vars

\* a tripped DEX was answered Invalid
C3_Witness ==
    /\ call.op = "validate_price" /\ call.was_tripped
    /\ call.result = "Invalid"

\* C4: a tripped DEX stays tripped through every step that is not
\* reset_error_count for that DEX.
C4_TrippedUntilReset ==
    [][\A d \in Dexes :
         (is_circuit_breaker_tripped(last_prices, d)
            /\ ~is_circuit_breaker_tripped(last_prices', d))
         => CallResetErrorCount(d)
      ]_vars

\* a validate_price call counted one more error for a DEX that was tripped
C4_Witness ==
    /\ call.op = "validate_price" /\ call.was_tripped /\ call.result = "Invalid"
    /\ Errors(last_prices, call.dex_name) = 7

\* the step is the call validate_price(d, p); the call it records is compared
\* first
ValidateStep(d, p) ==
    /\ call'.dex_name = d /\ call'.price = p
    /\ CallValidatePrice(d, p)

\* C5 as claimed: a call that returns anything but Valid adds exactly one to
\* consecutive_errors, a call that returns Valid sets it to 0.
C5_RejectedCountsOne ==
    [][\A d \in Dexes, p \in Prices :
         (CallValidatePrice(d, p) /\ call'.result \in Outcomes)
         => IF call'.result = "Valid"
            THEN Errors(last_prices', d) = 0
            ELSE Errors(last_prices', d) = Errors(last_prices, d) + 1
      ]_vars

\* C5 as amended: Invalid adds exactly one, Valid sets 0, CircuitBreakerTripped
\* leaves the count as it was.
C5_InvalidCountsOne ==
    [][\A d \in Dexes, p \in Prices :
         ValidateStep(d, p)
         => /\ call'.result = "Valid" => Errors(last_prices', d) = 0
            /\ call'.result = "Invalid"
                 => Errors(last_prices', d) = Errors(last_prices, d) + 1
            /\ call'.result = "CircuitBreakerTripped"
                 => Errors(last_prices', d) = Errors(last_prices, d)
      ]_vars

\* a call returned CircuitBreakerTripped
C5_Witness ==
    /\ call.op = "validate_price" /\ call.result = "CircuitBreakerTripped"
    /\ Errors(last_prices, call.dex_name) = 6

\* C6: a price outside the band is answered Invalid, adds one to the DEX's
\* consecutive_errors, and changes no recorded price and no other snapshot.
C6_OutOfBandRejected ==
    [][\A d \in Dexes, p \in Prices :
         ((p < 500 \/ p > 10000) /\ CallValidatePrice(d, p))
         => /\ call'.result = "Invalid"
            /\ Errors(last_prices', d) = Errors(last_prices, d) + 1
            /\ \A e \in Dexes : StoredPrice(last_prices', e) = StoredPrice(last_prices, e)
            /\ \A e \in Dexes \ {d} : last_prices'[e] = last_prices[e]
      ]_vars

\* a price above the band was rejected for a DEX that keeps its accepted price
C6_Witness ==
    /\ call.op = "validate_price" /\ call.price > 10000 /\ call.result = "Invalid"
    /\ StoredPrice(last_prices, call.dex_name) = 10000

\* C7 as claimed: right after p0 was accepted, p1 is answered by the change
\* rule alone.
C7_ChangeRuleAlone ==
    [][\A d \in Dexes, p1 \in Prices :
         ( /\ call.op = "validate_price" /\ call.dex_name = d /\ call.result = "Valid"
           /\ CallValidatePrice(d, p1) )
         => IF LargeChange(call.price, p1)
            THEN call'.result = "Invalid"
            ELSE call'.result = "Valid" /\ StoredPrice(last_prices', d) = p1
      ]_vars

\* C7 as amended: right after p0 was accepted, a p1 inside the band is
\* answered by the change rule (Invalid above 15%, else Valid and recorded);
\* a p1 outside the band is Invalid whatever the change.
C7_ChangeRuleInBand ==
    [][\A d \in Dexes, p1 \in Prices :
         ( /\ call.op = "validate_price" /\ call.dex_name = d /\ call.result = "Valid"
           /\ CallValidatePrice(d, p1) )
         => IF ~InBand(p1) \/ LargeChange(call.price, p1)
            THEN call'.result = "Invalid" /\ StoredPrice(last_prices', d) = call.price
            ELSE call'.result = "Valid" /\ StoredPrice(last_prices', d) = p1
      ]_vars

\* a price inside the band was rejected right after an acceptance
C7_Witness ==
    /\ call.op = "validate_price" /\ call.result = "Invalid" /\ InBand(call.price)
    /\ StoredPrice(last_prices, call.dex_name) # 0
    /\ Errors(last_prices, call.dex_name) = 1

\* C8: the first call for a DEX with a price inside the band returns Valid
\* and creates the snapshot (price, now, 0 errors).
C8_FirstPriceAccepted ==
    [][\A d \in Dexes, p \in Prices :
         (~HasSnapshot(last_prices, d) /\ CallValidatePrice(d, p) /\ p >= 500 /\ p <= 10000)
         => /\ call'.result = "Valid"
            /\ last_prices'[d] = [price |-> p, timestamp |-> now, consecutive_errors |-> 0]
      ]_vars

\* a first call was accepted
C8_Witness ==
    /\ call.op = "validate_price" /\ ~call.had_snapshot /\ call.result = "Valid"
    /\ last_prices[call.dex_name].price = call.price

\* C17: reset_error_count sets the DEX's consecutive_errors to 0 and keeps its
\* price and timestamp; it changes no other snapshot and creates none for a
\* DEX that was never seen.
C17_ResetOnlyClearsErrors ==
    [][\A d \in Dexes :
         CallResetErrorCount(d)
         => /\ IF HasSnapshot(last_prices, d)
               THEN /\ HasSnapshot(last_prices', d)
                    /\ last_prices'[d].consecutive_errors = 0
                    /\ last_prices'[d].price = last_prices[d].price
                    /\ last_prices'[d].timestamp = last_prices[d].timestamp
               ELSE ~HasSnapshot(last_prices', d)
            /\ \A e \in Dexes \ {d} : last_prices'[e] = last_prices[e]
      ]_vars

\* a tripped DEX with an accepted price was reset, after the clock moved on
C17_Witness ==
    /\ call.op = "reset_error_count" /\ call.was_tripped
    /\ StoredPrice(last_prices, call.dex_name) # 0
    /\ Errors(last_prices, call.dex_name) = 0
    /\ last_prices[call.dex_name].timestamp < now

\* C18: a validate_price call for a DEX leaves the snapshot of every other DEX
\* as it was, whatever it returns.
C18_OtherSnapshotsUntouched ==
    [][\A d \in Dexes, p \in Prices :
         ValidateStep(d, p)
         => \A e \in Dexes \ {d} : last_prices'[e] = last_prices[e]
      ]_vars

\* a price was accepted for one DEX while the other had errors on record
C18_Witness ==
    /\ call.op = "validate_price" /\ call.result = "Valid"
    /\ \E e \in Dexes \ {call.dex_name} : Errors(last_prices, e) > 0

\* C19: after a validate_price call the DEX has a snapshot, whatever was
\* returned (a rejected first call creates price 0 with 1 error); no step
\* removes a snapshot.
C19_SnapshotsOnlyGrow ==
    [][\A d \in Dexes :
         /\ HasSnapshot(last_prices, d) => HasSnapshot(last_prices', d)
         /\ \A p \in Prices :
              ValidateStep(d, p)
              => /\ HasSnapshot(last_prices', d)
                 /\ (~HasSnapshot(last_prices, d) /\ call'.result # "Valid")
                      => /\ call'.result = "Invalid"
                         /\ last_prices'[d]
                              = [price |-> 0, timestamp |-> now, consecutive_errors |-> 1]
      ]_vars

\* the first call for a DEX was rejected
C19_Witness ==
    /\ call.op = "validate_price" /\ ~call.had_snapshot /\ call.result = "Invalid"
    /\ HasSnapshot(last_prices, call.dex_name)
    /\ last_prices[call.dex_name].price = 0
    /\ last_prices[call.dex_name].consecutive_errors = 1

\* C20: a call made when the DEX's snapshot is older than max_price_age
\* returns what it would return, and leaves the price and error count it would
\* leave, were the snapshot fresh; a price inside the band and within 15% of
\* the recorded one is accepted from a DEX that is not tripped.
C20_StalenessOnlyWarns ==
    [][\A d \in Dexes, p \in Prices :
         ( /\ HasSnapshot(last_prices, d)
           /\ now - last_prices[d].timestamp > max_price_age
           /\ ValidateStep(d, p) )
         => LET fresh == validate_price([last_prices EXCEPT ![d].timestamp = now], d, p, now)
                p0 == last_prices[d].price
            IN  /\ call'.result = fresh.result
                /\ StoredPrice(last_prices', d) = StoredPrice(fresh.last_prices, d)
                /\ Errors(last_prices', d) = Errors(fresh.last_prices, d)
                /\ ( /\ InBand(p) /\ p0 # 0 /\ ~LargeChange(p0, p)
                     /\ last_prices[d].consecutive_errors <= breaker_threshold )
                     => /\ call'.result = "Valid"
                        /\ last_prices'[d]
                             = [price |-> p, timestamp |-> now, consecutive_errors |-> 0]
      ]_vars

\* a price was accepted from a DEX whose snapshot was stale
C20_Witness ==
    /\ call.op = "validate_price" /\ call.was_stale /\ call.result = "Valid"
    /\ last_prices[call.dex_name].timestamp = now

\* C21: get_last_price answers nothing until a price was accepted for the DEX,
\* and the price it answers changes only in a validate_price call for that DEX
\* that returns Valid, to the price of that call: the price answered is always
\* one that was accepted.
C21_LastPriceWasAccepted ==
    [][\A d \in Dexes :
         LET before == get_last_price(last_prices, d)
             after == get_last_price(last_prices', d)
         IN  ( /\ after # NoSnapshot
               /\ (before = NoSnapshot \/ before.price # after.price) )
             => \E p \in Prices :
                  /\ ValidateStep(d, p)
                  /\ call'.result = "Valid"
                  /\ after.price = p
      ]_vars

\* the price and timestamp stored for a DEX, <<>> when it has no snapshot
Stored(lp, d) ==
    IF HasSnapshot(lp, d) THEN <<lp[d].price, lp[d].timestamp>> ELSE <<>>

\* C22: the price and timestamp stored for a DEX change only in a
\* validate_price call for that DEX that returns Valid; a call that returns
\* Invalid or CircuitBreakerTripped leaves them as they were; a stored price is
\* the zero sentinel or lies in [min_price, max_price].
C22_StoredOnlyOnValid ==
    [][\A d \in Dexes :
         /\ Stored(last_prices', d) # Stored(last_prices, d)
              => \E p \in Prices : ValidateStep(d, p) /\ call'.result = "Valid"
         /\ \A p \in Prices :
              (ValidateStep(d, p) /\ call'.result \in {"Invalid", "CircuitBreakerTripped"})
              => Stored(last_prices', d) = Stored(last_prices, d)
         /\ HasSnapshot(last_prices', d)
              => (last_prices'[d].price = 0 \/ InBand(last_prices'[d].price))
      ]_vars

\* C23: is_circuit_breaker_tripped answers true exactly for a DEX that has a
\* snapshot with more than 5 consecutive errors: false for a DEX never seen,
\* false after an acceptance or a reset and after each of the first five
\* rejections that follow, true after the sixth.
C23_TrippedAboveFive ==
    [][\A d \in Dexes :
         /\ is_circuit_breaker_tripped(last_prices, d)
              <=> (HasSnapshot(last_prices, d) /\ last_prices[d].consecutive_errors > 5)
         /\ is_circuit_breaker_tripped(last_prices', d)
              <=> (HasSnapshot(last_prices', d) /\ last_prices'[d].consecutive_errors > 5)
         /\ ~HasSnapshot(last_prices', d) => ~is_circuit_breaker_tripped(last_prices', d)
         /\ CallResetErrorCount(d) => ~is_circuit_breaker_tripped(last_prices', d)
         /\ \A p \in Prices :
              ValidateStep(d, p)
              => /\ call'.result = "Valid" => ~is_circuit_breaker_tripped(last_prices', d)
                 /\ (call'.result = "Invalid" /\ Errors(last_prices, d) < 5)
                      => ~is_circuit_breaker_tripped(last_prices', d)
                 /\ (call'.result = "Invalid" /\ Errors(last_prices, d) >= 5)
                      => is_circuit_breaker_tripped(last_prices', d)
      ]_vars

\* a DEX is not tripped after its fifth rejection in a row
C23_Witness ==
    /\ call.op = "validate_price" /\ call.result = "Invalid"
    /\ Errors(last_prices, call.dex_name) = 5
    /\ ~is_circuit_breaker_tripped(last_prices, call.dex_name)
    /\ \E e \in Dexes : ~HasSnapshot(last_prices, e)

\* the DEXes that have a snapshot
Known(lp) == {d \in Dexes : HasSnapshot(lp, d)}

\* what get_stats reports at time t agrees with a count over the snapshots
StatsMatch(lp, t) ==
    LET stats == get_stats(lp, t)
        known == Known(lp)
    IN  /\ stats.total_dexes = Cardinality(known)
        /\ stats.active_dexes
             = Cardinality({d \in known : lp[d].consecutive_errors = 0})
        /\ stats.circuit_breaker_tripped
             = Cardinality({d \in known : lp[d].consecutive_errors > 5})
        /\ stats.active_dexes + stats.circuit_breaker_tripped <= stats.total_dexes

\* C25: in every state get_stats reports as total_dexes the number of DEXes
\* with a snapshot, as active_dexes the number of them with 0 consecutive
\* errors and as circuit_breaker_tripped the number with more than 5, so
\* active_dexes + circuit_breaker_tripped <= total_dexes; a get_stats call
\* changes no snapshot.
C25_StatsCountSnapshots ==
    [][/\ StatsMatch(last_prices, now)
       /\ StatsMatch(last_prices', now')
       /\ CallGetStats => last_prices' = last_prices
      ]_vars

\* get_stats was called with one DEX active, one tripped and one of them stale
C25_Witness ==
    /\ call.op = "get_stats"
    /\ get_stats(last_prices, now)
         = [total_dexes |-> 2, active_dexes |-> 1,
            circuit_breaker_tripped |-> 1, stale_prices |-> 1]

----------------------------------------------------------------------------
(* The bot: one action per iteration of the loop in run *)

Init ==
    /\ last_prices = [d \in Dexes |-> NoSnapshot]
    /\ now = 0
    /\ panicked = FALSE
    /\ call = NoCall
    /\ config \in Configs
    /\ round = NoRound
    /\ db = 0

Round(ur, sr, save_ok) ==
    /\ ~panicked
    /\ \A d \in Dexes : WithinErrors(last_prices, d)
    /\ LET r == check_arbitrage_opportunity(last_prices, config, db, ur, sr, save_ok, now)
       IN  /\ r.db <= MaxRows
           /\ last_prices' = r.last_prices
           /\ db' = r.db
           /\ round' = r.round
           /\ panicked' = (r.round.result = "Panic")
    /\ UNCHANGED <<now, call, config>>

Next ==
    \E ur \in FetchResults, sr \in FetchResults, save_ok \in BOOLEAN : Round(ur, sr, save_ok)

Spec == Init /\ [][Next]_vars

----------------------------------------------------------------------------
(* Properties of the polling round, checked under Spec *)

BothValid(r) ==
    r.ran /\ r.uniswap_validation = "Valid" /\ r.sushiswap_validation = "Valid"

\* (higher - lower) / lower < th, for two prices above zero
SpreadBelow(a, b, th) ==
    LET lo == IF a < b THEN a ELSE b
        hi == IF a < b THEN b ELSE a
    IN  (hi - lo) * th.d < th.n * lo

\* C9: every opportunity the round materializes has buy_price strictly below
\* sell_price; two equal prices produce no opportunity.
C9_BuyBelowSell ==
    (round.ran /\ round.opportunity # NoOpportunity)
    => round.opportunity.buy_price < round.opportunity.sell_price

\* C10: a round whose two validated prices have a spread below
\* min_profit_threshold materializes no opportunity and inserts no row,
\* whatever the slippage, trade amount and gas cost are.
C10_BelowThresholdNothing ==
    [][(BothValid(round')
          /\ SpreadBelow(round'.uniswap_price, round'.sushiswap_price,
                         config.min_profit_threshold))
         => (round'.opportunity = NoOpportunity /\ ~round'.saved /\ db' = db)
      ]_vars

\* two different valid prices stayed below the threshold, with slippage and gas set
C10_Witness ==
    /\ BothValid(round)
    /\ round.uniswap_price # round.sushiswap_price
    /\ SpreadBelow(round.uniswap_price, round.sushiswap_price, config.min_profit_threshold)
    /\ config.max_slippage_bps > 0 /\ config.estimated_gas_cost > 0
    /\ round.opportunity = NoOpportunity


\* the price a DEX quoted in the round
RoundPrice(r, d) == IF d = "Uniswap" THEN r.uniswap_price ELSE r.sushiswap_price

HasOpportunity(r) == r.ran /\ r.opportunity # NoOpportunity

\* C11: a row is inserted only by a round in which both validate_price calls
\* returned Valid for the prices used (so both prices are on record with no
\* errors); a round with an Invalid or CircuitBreakerTripped answer inserts
\* nothing.
C11_SavedOnlyWhenBothValid ==
    [][/\ db' # db => (round'.ran /\ round'.saved)
       /\ (round'.ran /\ round'.saved)
            => /\ BothValid(round')
               /\ \A d \in Dexes :
                    /\ StoredPrice(last_prices', d) = RoundPrice(round', d)
                    /\ Errors(last_prices', d) = 0
                    /\ InBand(RoundPrice(round', d))
       /\ (round'.ran /\ ~BothValid(round')) => db' = db
      ]_vars

\* a row was inserted
C11_Witness ==
    /\ round.ran /\ round.saved /\ db > 0
    /\ BothValid(round)

C13_ProfitFormula ==
    HasOpportunity(round) =>
      LET o == round.opportunity
          f == Dec(10000 - config.max_slippage_bps, 10000)
          lo == IF round.uniswap_price < round.sushiswap_price
                THEN round.uniswap_price ELSE round.sushiswap_price
          hi == IF round.uniswap_price < round.sushiswap_price
                THEN round.sushiswap_price ELSE round.uniswap_price
          proceeds == DecMul(DecMul(DecMul(Dec(config.trade_amount, lo), f), DecInt(hi)), f)
      IN  /\ o.estimated_profit
               = DecSub(DecSub(proceeds, DecInt(config.trade_amount)),
                        DecInt(config.estimated_gas_cost))
          /\ o.price_difference_pct = Dec(hi - lo, lo)
          /\ o.trade_amount = config.trade_amount
          /\ o.gas_cost = config.estimated_gas_cost
          /\ (lo = 2000 /\ hi = 2300 /\ config.trade_amount = 1000
                /\ config.max_slippage_bps = 0 /\ config.estimated_gas_cost = 0)
               => /\ o.price_difference_pct = [n |-> 3, d |-> 20]
                  /\ tokens_bought(config, o.buy_price) = [n |-> 1, d |-> 2]
                  /\ usdc_received(config, o.buy_price, o.sell_price) = [n |-> 1150, d |-> 1]
                  /\ o.estimated_profit = [n |-> 150, d |-> 1]

\* the round of the example: 2000 on Uniswap, 2300 on SushiSwap
C13_Witness ==
    /\ HasOpportunity(round)
    /\ round.uniswap_price = 2000 /\ round.sushiswap_price = 2300
    /\ config.trade_amount = 1000
    /\ config.max_slippage_bps = 0 /\ config.estimated_gas_cost = 0
    /\ round.opportunity.estimated_profit = [n |-> 150, d |-> 1]

\* an opportunity computed with slippage and gas
C13_WitnessSlippage ==
    /\ HasOpportunity(round)
    /\ config.max_slippage_bps > 0 /\ config.estimated_gas_cost > 0

C15_LoopNeverStops ==
    round.ran => round.result \in {"Ok", "Err"}

\* C16: a round in which a fetch failed or timed out calls no validate_price:
\* no snapshot changes, no error is counted, nothing is saved.
C16_FetchFailureLeavesValidator ==
    [][(round'.ran /\ round'.fetch # "Ok")
         => /\ last_prices' = last_prices
            /\ db' = db
            /\ round'.uniswap_validation = "" /\ round'.sushiswap_validation = ""
            /\ round'.opportunity = NoOpportunity
      ]_vars

\* SushiSwap's fetch failed in a round in which Uniswap's price was not validated
C16_Witness ==
    /\ round.ran /\ round.fetch = "SushiSwapFailed"
    /\ ~HasSnapshot(last_prices, "Uniswap") /\ ~HasSnapshot(last_prices, "SushiSwap")

\* C24: in a round where both fetches succeed validate_price is called once
\* for Uniswap and then once for SushiSwap, whatever the first call answered:
\* the round has both answers, the map is the one left by the two calls in
\* that order, and a rejected Uniswap price leaves SushiSwap's snapshot as
\* its own call makes it.
C24_BothValidatedEachRound ==
    [][\A ur \in FetchResults, sr \in FetchResults, save_ok \in BOOLEAN :
         (ur.kind = "Ok" /\ sr.kind = "Ok" /\ Round(ur, sr, save_ok))
         => LET uv == validate_price(last_prices, "Uniswap", ur.price, now)
                sv == validate_price(uv.last_prices, "SushiSwap", sr.price, now)
                alone == validate_price(last_prices, "SushiSwap", sr.price, now)
            IN  /\ round'.uniswap_validation = uv.result
                /\ round'.sushiswap_validation = sv.result
                /\ last_prices' = sv.last_prices
                /\ ~is_valid(uv.result)
                     => last_prices'["SushiSwap"] = alone.last_prices["SushiSwap"]
      ]_vars

====
